---- MODULE Spec2Model ----
(***************************************************************************)
(* Model of src/chibios/os/hal/lib/streams/chprintf.c: the integer         *)
(* renderer long_to_string_with_divisor / ch_ltoa, the float renderer      *)
(* ftoa, the format engine chvprintf and the bounded form chvsnprintf.     *)
(*                                                                         *)
(* Data representation.                                                    *)
(*  - A char is its code, an integer.  Strings are sequences of codes      *)
(*    without the terminator; the byte at position Len+1 is the NUL.       *)
(*  - A long / unsigned long / int is a 32-bit pattern (the ILP32 targets  *)
(*    of this HAL), kept as two 16-bit limbs <<hi, lo>> because the        *)
(*    model checker integers stop at 2^31-1.  On ILP32, "long op unsigned" is  *)
(*    carried out in unsigned long, so % and / on lines 72-78 are the      *)
(*    unsigned operations on the pattern.                                  *)
(*  - A double is a sign and an exact decimal m / 10^k (or NAN / INF).     *)
(*    Arithmetic on it is exact: binary rounding of the digits is outside  *)
(*    the model, the control flow and the buffer positions are inside.     *)
(***************************************************************************)
EXTENDS Integers, Sequences, FiniteSets, TLC

VARIABLES build, call, pc, fmtp, api, n, puts, ms, tmpbuf, last, overreads,
          retval, lt

vars == <<build, call, pc, fmtp, api, n, puts, ms, tmpbuf, last, overreads,
          retval, lt>>

engineVars == <<build, call, pc, fmtp, api, n, puts, ms, tmpbuf, last,
                overreads, retval>>

(***************************************************************************)
(* Program constants                                                       *)
(***************************************************************************)
MAX_FILLER == 11

FLOAT_PRECISION == 9

\* One 16-bit limb of the 32-bit long.
Limb == 65536

\* Character literals used by the source, by their ASCII codes.
Ord ==
  ("%" :> 37) @@ ("-" :> 45) @@ ("0" :> 48) @@ ("9" :> 57) @@ ("*" :> 42) @@
  ("." :> 46) @@ ("l" :> 108) @@ ("L" :> 76) @@ ("A" :> 65) @@ ("Z" :> 90) @@
  ("c" :> 99) @@ ("s" :> 115) @@ ("d" :> 100) @@ ("D" :> 68) @@ ("i" :> 105) @@
  ("I" :> 73) @@ ("f" :> 102) @@ ("x" :> 120) @@ ("X" :> 88) @@ ("u" :> 117) @@
  ("U" :> 85) @@ ("o" :> 111) @@ ("O" :> 79) @@ ("+" :> 43) @@ ("E" :> 69) @@
  ("N" :> 78) @@ ("F" :> 70) @@ ("(" :> 40) @@ (")" :> 41) @@ ("n" :> 110) @@
  (" " :> 32) @@ ("a" :> 97) @@ ("b" :> 98) @@ ("q" :> 113) @@
  ("1" :> 49) @@ ("2" :> 50) @@ ("3" :> 51) @@ ("4" :> 52) @@ ("5" :> 53) @@
  ("6" :> 54) @@ ("7" :> 55) @@ ("8" :> 56)

NUL == Ord["0"] - Ord["0"]

(***************************************************************************)
(* 32-bit words as two limbs                                               *)
(***************************************************************************)
\* The pattern of a non-negative int below 2^31.
FromInt(v) == <<v \div Limb, v % Limb>>

LIsZero(l) == l[1] = 0 /\ l[2] = 0

\* l < 0 for a long: the sign bit of the pattern.
LIsNeg(l) == l[1] >= Limb \div 2

\* l = -l (line 335): two's complement negation of the pattern; LONG_MIN
\* stays LONG_MIN, which is what the negate instruction produces.
LNegate(l) ==
  IF l[2] = 0 THEN <<(Limb - l[1]) % Limb, 0>>
               ELSE <<Limb - 1 - l[1], Limb - l[2]>>

\* l % radix in unsigned long (line 72).
LMod(l, radix) == ((l[1] % radix) * Limb + l[2]) % radix

\* l / radix in unsigned long (lines 77, 78).
LDiv(l, radix) ==
  <<l[1] \div radix, ((l[1] % radix) * Limb + l[2]) \div radix>>

(***************************************************************************)
(* The working buffer: cells 0..MemTop, -1 where nothing was stored yet;   *)
(* lo and hi are the lowest and the highest index any store went to.       *)
(* MemTop lies past every declared tmpbuf size so that a store beyond the  *)
(* array is seen.                                                          *)
(***************************************************************************)
MemTop == 3 * MAX_FILLER

EmptyBuf == [mem |-> [k \in 0..MemTop |-> -1], lo |-> 0, hi |-> -1]

\* What a renderer hands back: the buffer and the pointer after the text.
\* sci, prec, pidx, dot and epos are set by the exponent branch of ftoa
\* alone: the clamped precision, the index it used into pow10, and where
\* the '.' and the 'E' went.
Rendered(buf, p) ==
  [buf |-> buf, p |-> p, sci |-> FALSE, prec |-> 0, pidx |-> 0, dot |-> 0,
   epos |-> 0]

Max(a, b) == IF a > b THEN a ELSE b

Min(a, b) == IF a < b THEN a ELSE b

\* *ptr = ch for a char cell.
Store(buf, idx, ch) ==
  [mem |-> IF idx \in 0..MemTop THEN [buf.mem EXCEPT ![idx] = ch] ELSE buf.mem,
   lo  |-> Min(buf.lo, idx), hi |-> Max(buf.hi, idx)]

Load(buf, idx) == IF idx \in 0..MemTop THEN buf.mem[idx] ELSE -1

\* The cells from..to-1 as a sequence.
Text(buf, from, to) == [k \in 1..(to - from) |-> Load(buf, from + k - 1)]

(***************************************************************************)
(* long_to_string_with_divisor (lines 50-86)                               *)
(***************************************************************************)
\* Lines 73-75, mutated: lower-case letters for the digits above 9.
DigitChar_lower(i) ==
  IF i + Ord["0"] > Ord["9"] THEN i + Ord["0"] + Ord["a"] - Ord["0"] - 10
                             ELSE i + Ord["0"]

\* Lines 73-75: i += '0'; if (i > '9') i += 'A' - '0' - 10.
DigitChar(i) ==
  IF i + Ord["0"] > Ord["9"] THEN i + Ord["0"] + Ord["A"] - Ord["0"] - 10
                             ELSE i + Ord["0"]

RECURSIVE DigitLoop(_, _, _, _, _)
\* Lines 70-78: do { *--q = digit(l % radix); l /= radix; }
\*              while ((ll /= radix) != 0);
DigitLoop(buf, q, l, ll, radix) ==
  LET buf1 == Store(buf, q - 1, DigitChar(LMod(l, radix)))
      ll1  == LDiv(ll, radix)
  IN  IF ~LIsZero(ll1) THEN DigitLoop(buf1, q - 1, LDiv(l, radix), ll1, radix)
                       ELSE [buf |-> buf1, q |-> q - 1]

RECURSIVE CopyLoop(_, _, _, _)
\* Lines 81-83: do *p++ = *q++; while (--i);
CopyLoop(buf, p, q, i) ==
  LET buf1 == Store(buf, p, Load(buf, q))
  IN  IF i - 1 # 0 THEN CopyLoop(buf1, p + 1, q + 1, i - 1)
                   ELSE Rendered(buf1, p + 1)

\* Lines 80-85: the digits at d.q .. p + MAX_FILLER - 1 moved down to p.
CopyDown(d, p) == CopyLoop(d.buf, p, d.q, p + MAX_FILLER - d.q)

\* Lines 59-85.  divisor = 0 lets num decide the number of digits.
long_to_string_with_divisor(buf, p, num, radix, divisor) ==
  CopyDown(DigitLoop(buf, p + MAX_FILLER, num,
                     IF LIsZero(divisor) THEN num ELSE divisor, radix), p)

\* Lines 88-92.
ch_ltoa(buf, p, num, radix) ==
  long_to_string_with_divisor(buf, p, num, radix, FromInt(0))

(***************************************************************************)
(* Doubles: [kind |-> "nan"], [kind |-> "inf", neg |-> b] or                *)
(* [kind |-> "num", neg |-> b, m |-> m, k |-> k], the value (+/-) m / 10^k  *)
(* with m >= 0 and k any integer.                                           *)
(***************************************************************************)
RECURSIVE Pow10(_)
Pow10(k) == IF k <= 0 THEN 1 ELSE 10 * Pow10(k - 1)

\* num >= 10.0 and num < 1.0 (lines 145, 150), for m > 0.
Ge10(m, k) == IF k + 1 <= 0 THEN TRUE ELSE m >= Pow10(k + 1)

Lt1(m, k) == IF k <= 0 THEN FALSE ELSE m < Pow10(k)

\* (int)num and num - (int)num, as the new m.
IntPart(m, k) == IF k <= 0 THEN m * Pow10(0 - k) ELSE m \div Pow10(k)

FracPart(m, k) == IF k <= 0 THEN 0 ELSE m % Pow10(k)

RECURSIVE NormDown(_, _, _)
\* Lines 145-149: while (num >= 10.0) { num /= 10.0; E++; }
NormDown(m, k, E) ==
  IF Ge10(m, k) THEN NormDown(m, k + 1, E + 1) ELSE [m |-> m, k |-> k, E |-> E]

RECURSIVE NormUp(_, _, _)
\* Lines 150-154: while (num < 1.0) { num *= 10.0; E--; }
NormUp(m, k, E) ==
  IF Lt1(m, k) THEN NormUp(m, k - 1, E - 1) ELSE [m |-> m, k |-> k, E |-> E]

\* Lines 142-155.
Normalize(m, k) ==
  IF m # 0 THEN LET d == NormDown(m, k, 0) IN NormUp(d.m, d.k, d.E)
           ELSE [m |-> m, k |-> k, E |-> 0]

\* Lines 96-97.
pow10 ==
  <<10, 100, 1000, 10000, 100000, 1000000, 10000000, 100000000, 1000000000>>

\* pow10[idx] (line 182), idx counted from 0.  An index outside the table
\* (precision - 2 with precision = 1 wraps to the word before the table)
\* reads whatever word lies there: garbage.
Pow10At(idx, garbage) ==
  IF idx \in 0..(FLOAT_PRECISION - 1) THEN pow10[idx + 1] ELSE garbage

\* (long)((num - l) * precision) (line 184) for the fraction fm / 10^k.
FracScaled(fm, k, precision) ==
  IF k <= 0 THEN 0
  ELSE IF precision % Pow10(k) = 0 THEN fm * (precision \div Pow10(k))
  ELSE (fm * precision) \div Pow10(k)

RECURSIVE PlainLoop(_, _, _, _, _, _)
\* Lines 163-170: for (; precision > 0; E--, precision--) { ... }
PlainLoop(buf, p, m, k, E, precision) ==
  IF precision > 0
    THEN IF E = 0 /\ precision > 1
           THEN PlainLoop(Store(Store(buf, p, Ord["0"] + IntPart(m, k)),
                                p + 1, Ord["."]),
                          p + 2, FracPart(m, k), k - 1, E - 1, precision - 1)
           ELSE PlainLoop(Store(buf, p, Ord["0"] + IntPart(m, k)),
                          p + 1, FracPart(m, k), k - 1, E - 1, precision - 1)
    ELSE Rendered(buf, p)

\* Lines 157-158; precision is an unsigned long, so a negative int argument
\* is a value above FLOAT_PRECISION.
ClampPrecision(precision) ==
  IF precision = 0 \/ precision > FLOAT_PRECISION \/ precision < 0
    THEN FLOAT_PRECISION ELSE precision

\* Lines 188-199: 'E', the sign of the exponent and its digits.  r is the
\* text so far; dot and epos are where the '.' and the 'E' went.
SciExponent(r, E, precision, idx, dot) ==
  [ long_to_string_with_divisor(
      Store(Store(r.buf, r.p, Ord["E"]), r.p + 1,
            IF E >= 0 THEN Ord["+"] ELSE Ord["-"]),
      r.p + 2, FromInt(IF E >= 0 THEN E ELSE 0 - E), 10, FromInt(0))
    EXCEPT !.sci = TRUE, !.prec = precision, !.pidx = idx, !.dot = dot,
           !.epos = r.p ]

\* Lines 179-186: '.', then the fraction scaled by prec = pow10[precision - 2]
\* and printed over the digits of prec / 10.
SciFraction(r1, nm, precision, idx, prec) ==
  SciExponent(
    IF precision >= 1
      THEN long_to_string_with_divisor(
             Store(r1.buf, r1.p, Ord["."]), r1.p + 1,
             FromInt(FracScaled(FracPart(nm.m, nm.k), nm.k, prec)), 10,
             FromInt(prec \div 10))
      ELSE r1,
    nm.E, precision, idx, r1.p)

\* Lines 175-199: the branch with exponent.
SciBranch(buf, p, nm, precision, garbage) ==
  SciFraction(
    long_to_string_with_divisor(buf, p, FromInt(IntPart(nm.m, nm.k)), 10,
                                FromInt(0)),
    nm, precision, precision - 2, Pow10At(precision - 2, garbage))

\* Lines 160-200: plain notation when 0 <= E < precision.
FtoaNumber(buf, p, nm, pr, garbage) ==
  IF nm.E < pr /\ nm.E >= 0
    THEN PlainLoop(buf, p, nm.m, nm.k, nm.E, pr)
    ELSE SciBranch(buf, p, nm, pr, garbage)

\* Lines 123-202.
ftoa(buf, p, num, precision, garbage) ==
  IF num.kind = "nan"
    THEN Rendered(Store(Store(Store(buf, p, Ord["N"]), p + 1, Ord["A"]),
                        p + 2, Ord["N"]), p + 3)
  ELSE IF num.kind = "inf"
    THEN LET b0 == IF num.neg THEN Store(buf, p, Ord["-"]) ELSE buf
             p0 == IF num.neg THEN p + 1 ELSE p
         IN  Rendered(Store(Store(Store(b0, p0, Ord["I"]), p0 + 1, Ord["N"]),
                            p0 + 2, Ord["F"]), p0 + 3)
  ELSE FtoaNumber(buf, p, Normalize(num.m, num.k), ClampPrecision(precision),
                  garbage)

(***************************************************************************)
(* chvprintf (lines 232-405): helpers                                       *)
(***************************************************************************)
\* The signed value of a small int pattern.
IntVal(w) ==
  IF LIsNeg(w) THEN 0 - (LNegate(w)[1] * Limb + LNegate(w)[2])
               ELSE w[1] * Limb + w[2]

\* The pattern of a small signed int.
IntW(v) == IF v >= 0 THEN FromInt(v) ELSE LNegate(FromInt(0 - v))

\* One argument of the list: its type t, and under it the int / long
\* pattern w, or the string s (null: a null pointer), or the double f.
NoDbl == [kind |-> "nan", neg |-> FALSE, m |-> 0, k |-> 0]

WordArg(w) == [t |-> "int", w |-> w, s |-> <<>>, null |-> FALSE, f |-> NoDbl]

IntArg(v) == WordArg(IntW(v))

StrArg(str) ==
  [t |-> "str", w |-> <<0, 0>>, s |-> str, null |-> FALSE, f |-> NoDbl]

NullArg ==
  [t |-> "str", w |-> <<0, 0>>, s |-> <<>>, null |-> TRUE, f |-> NoDbl]

DblArg(kind, neg, m, k) ==
  [t |-> "dbl", w |-> <<0, 0>>, s |-> <<>>, null |-> FALSE,
   f |-> [kind |-> kind, neg |-> neg, m |-> m, k |-> k]]

\* Lines 277, 291, mutated: c declared int, the argument kept whole.
ToChar_int(w) == IntVal(w)

\* char c = <int>: lines 277, 291, 313.  The low eight bits, read as signed
\* or unsigned as the build's plain char is.
ToChar(w) ==
  LET b == w[2] % 256
  IN  IF build.charSigned /\ b >= 128 THEN b - 256 ELSE b

\* (uint8_t)ch handed to streamPut (lines 252, 382, 388, 394, 400).
ToByte(ch) == (ch + 256) % 256

\* *fmt at a position up to the terminator.
FmtAt(pos) == IF pos <= Len(call.fmt) THEN call.fmt[pos] ELSE NUL

\* va_arg(ap, T): the next argument when it has type T.
ArgOk(a, t) == a <= Len(call.ap) /\ call.ap[a].t = t

ArgWord(a) == IF ArgOk(a, "int") THEN call.ap[a].w ELSE FromInt(0)

RECURSIVE NumLoop(_, _, _)
\* Lines 271-281 and 285-296: the digits or '*' of a width or a precision.
\* Yields the number, the character that ended it, and the cursors.
NumLoop(f, a, acc) ==
  LET c == FmtAt(f)
  IN  IF c >= Ord["0"] /\ c <= Ord["9"]
        THEN NumLoop(f + 1, a, acc * 10 + (c - Ord["0"]))
      ELSE IF c = Ord["*"]
        THEN NumLoop(f + 1, a + 1, acc * 10 + ToChar(ArgWord(a)))
      ELSE [val |-> acc, c |-> c, f |-> f + 1, api |-> a]

NoNum == [val |-> 0, c |-> 0, f |-> 0, api |-> 0]

\* The parsed directive (the locals of chvprintf after line 306): c is the
\* conversion character, fmt and api the cursors after it.  wstar / pstar
\* say that the width / precision took a '*' argument, warg / parg which.
Descriptor(left, zero, w, pr, lmod, more, a0) ==
  [left_align |-> left, zero |-> zero,
   filler |-> IF zero THEN Ord["0"] ELSE Ord[" "],
   width |-> w.val, precision |-> pr.val,
   is_long |-> IF lmod THEN TRUE
               ELSE (IF more THEN FmtAt(pr.f) ELSE pr.c) >= Ord["A"]
                    /\ (IF more THEN FmtAt(pr.f) ELSE pr.c) <= Ord["Z"],
   c |-> IF more THEN FmtAt(pr.f) ELSE pr.c,
   fmt |-> IF more THEN pr.f + 1 ELSE pr.f, api |-> pr.api,
   wstar |-> w.api > a0, pstar |-> pr.api > w.api,
   warg |-> IF w.api > a0 THEN IntVal(ArgWord(a0)) ELSE 0,
   parg |-> IF pr.api > w.api THEN IntVal(ArgWord(w.api)) ELSE 0]

\* Lines 298-306: the long modifier; after 'l' or 'L' the conversion is the
\* next character, if there is one.
ParseLong(left, zero, w, pr, a0) ==
  Descriptor(left, zero, w, pr, pr.c = Ord["l"] \/ pr.c = Ord["L"],
             (pr.c = Ord["l"] \/ pr.c = Ord["L"]) /\ FmtAt(pr.f) # NUL, a0)

\* Lines 282-297: the precision, after a '.'.
ParsePrecision(left, zero, w, a0) ==
  ParseLong(left, zero, w,
            IF w.c = Ord["."] THEN NumLoop(w.f, w.api, 0)
            ELSE [val |-> 0, c |-> w.c, f |-> w.f, api |-> w.api], a0)

\* Lines 264-281: the '0' flag, then the width.
ParseZero(left, f1, a0) ==
  ParsePrecision(left, FmtAt(f1) = Ord["0"],
                 NumLoop(IF FmtAt(f1) = Ord["0"] THEN f1 + 1 ELSE f1, a0, 0),
                 a0)

\* Lines 256-306: flags, width, precision and length modifier of the
\* directive whose '%' was just consumed; f0 is the cursor after it.
ParseDirective(f0, a0) ==
  ParseZero(FmtAt(f0) = Ord["-"],
            IF FmtAt(f0) = Ord["-"] THEN f0 + 1 ELSE f0, a0)

NullText == <<Ord["("], Ord["n"], Ord["u"], Ord["l"], Ord["l"], Ord[")"]>>

RECURSIVE StrScan(_, _, _)
\* Line 321: for (p = s; *p && (--precision >= 0); p++) ;  yields p - s.
StrScan(str, k, precision) ==
  IF k < Len(str) /\ precision - 1 >= 0 THEN StrScan(str, k + 1, precision - 1)
                                        ELSE k

\* Line 373 for a text rendered into tmpbuf: s = tmpbuf, i = p - s.  text is
\* s[0..i), sfirst is *s, src the whole of what s points to.
InTmp(r, filler, a) ==
  [buf |-> r.buf, text |-> Text(r.buf, 0, r.p), sfirst |-> Load(r.buf, 0),
   src |-> Text(r.buf, 0, r.p), filler |-> filler, api |-> a, fl |-> r]

\* Lines 315-323: s is the argument or "(null)".
RenderString(buf, str, precision, a) ==
  [buf |-> buf, text |-> SubSeq(str, 1, StrScan(str, 0, precision)),
   sfirst |-> IF Len(str) > 0 THEN str[1] ELSE NUL, src |-> str,
   filler |-> Ord[" "], api |-> a, fl |-> Rendered(buf, 0)]

\* Lines 332-337.
RenderSigned(buf, l) ==
  IF LIsNeg(l) THEN ch_ltoa(Store(buf, 0, Ord["-"]), 1, LNegate(l), 10)
               ELSE ch_ltoa(buf, 0, l, 10)

\* Lines 342-348.
RenderFloat(buf, f, precision, garbage) ==
  IF f.kind # "nan" /\ f.neg
    THEN ftoa(Store(buf, 0, Ord["-"]), 1, [f EXCEPT !.neg = FALSE], precision,
              garbage)
    ELSE ftoa(buf, 0, f, precision, garbage)

\* Lines 309-372: the switch on the conversion character.
Render(buf, d, useFloat, garbage) ==
  IF d.c = Ord["c"]
    THEN InTmp(Rendered(Store(buf, 0, ToChar(ArgWord(d.api))), 1), Ord[" "],
               d.api + 1)
  ELSE IF d.c = Ord["s"]
    THEN RenderString(buf,
                      IF ArgOk(d.api, "str") /\ ~call.ap[d.api].null
                        THEN call.ap[d.api].s ELSE NullText,
                      IF d.precision = 0 THEN 32767 ELSE d.precision,
                      d.api + 1)
  ELSE IF d.c \in {Ord["D"], Ord["d"], Ord["I"], Ord["i"]}
    THEN InTmp(RenderSigned(buf, ArgWord(d.api)), d.filler, d.api + 1)
  ELSE IF d.c = Ord["f"] /\ useFloat
    THEN InTmp(RenderFloat(buf,
                           IF ArgOk(d.api, "dbl") THEN call.ap[d.api].f
                                                  ELSE NoDbl,
                           d.precision, garbage),
               d.filler, d.api + 1)
  ELSE IF d.c \in {Ord["X"], Ord["x"]}
    THEN InTmp(ch_ltoa(buf, 0, ArgWord(d.api), 16), d.filler, d.api + 1)
  ELSE IF d.c \in {Ord["U"], Ord["u"]}
    THEN InTmp(ch_ltoa(buf, 0, ArgWord(d.api), 10), d.filler, d.api + 1)
  ELSE IF d.c \in {Ord["O"], Ord["o"]}
    THEN InTmp(ch_ltoa(buf, 0, ArgWord(d.api), 8), d.filler, d.api + 1)
  ELSE InTmp(Rendered(Store(buf, 0, d.c), 1), d.filler, d.api)

\* k copies of a byte.
Fill(k, b) == [j \in 1..k |-> b]

Bytes(text) == [j \in 1..Len(text) |-> ToByte(text[j])]

\* Lines 373-403, mutated: the filler loops put without counting.
EmitField_fillUncounted(sfirst, text, width, left_align, filler) ==
  LET i == Len(text)
      pad == IF width - i < 0 THEN 0 ELSE width - i
      before == ~left_align /\ pad > 0
      signFirst == before /\ sfirst = Ord["-"] /\ filler = Ord["0"]
      body == IF signFirst /\ i > 0 THEN Tail(text) ELSE text
  IN  [out |-> (IF signFirst THEN <<ToByte(sfirst)>> ELSE <<>>)
                 \o (IF before THEN Fill(pad, ToByte(filler)) ELSE <<>>)
                 \o Bytes(body)
                 \o (IF left_align THEN Fill(pad, ToByte(filler)) ELSE <<>>),
       cnt |-> (IF signFirst THEN 1 ELSE 0) + Len(body)]

\* Lines 373-403, mutated: no sign-first case, the filler precedes the text.
EmitField_noSignFirst(sfirst, text, width, left_align, filler) ==
  LET i == Len(text)
      pad == IF width - i < 0 THEN 0 ELSE width - i
      before == ~left_align /\ pad > 0
  IN  [out |-> (IF before THEN Fill(pad, ToByte(filler)) ELSE <<>>)
                 \o Bytes(text)
                 \o (IF left_align THEN Fill(pad, ToByte(filler)) ELSE <<>>),
       cnt |-> pad + i]

\* Lines 373-403: padding and emission of one rendered field.  sfirst is *s.
\* out is the bytes put, in order; cnt the number of n++ executed, one per
\* loop iteration: the sign (line 383), the leading fillers (389), the text
\* (395), the trailing fillers (401).
EmitField(sfirst, text, width, left_align, filler) ==
  LET i == Len(text)
      pad == IF width - i < 0 THEN 0 ELSE width - i
      before == ~left_align /\ pad > 0
      signFirst == before /\ sfirst = Ord["-"] /\ filler = Ord["0"]
      body == IF signFirst /\ i > 0 THEN Tail(text) ELSE text
  IN  [out |-> (IF signFirst THEN <<ToByte(sfirst)>> ELSE <<>>)
                 \o (IF before THEN Fill(pad, ToByte(filler)) ELSE <<>>)
                 \o Bytes(body)
                 \o (IF left_align THEN Fill(pad, ToByte(filler)) ELSE <<>>),
       cnt |-> (IF signFirst THEN 1 ELSE 0) + (IF before THEN pad ELSE 0)
                 + Len(body) + (IF left_align THEN pad ELSE 0)]

(***************************************************************************)
(* The bounded sink: MemoryStream of memstreams.c, whose put refuses bytes  *)
(* past its capacity.  str holds the destination cells, -1 where nothing    *)
(* was stored; cells at and beyond the capacity are kept so that a store    *)
(* there would show.                                                        *)
(***************************************************************************)
MaxSize == 4

StrTop == MaxSize + 2

\* msObjectInit(&ms, str, size, 0).
msObjectInit(size) ==
  [str |-> [k \in 0..StrTop |-> -1], eos |-> 0, size |-> size]

\* The stream's put.
MsPut(m, b) ==
  IF m.size - m.eos <= 0 THEN m
  ELSE [str |-> [m.str EXCEPT ![m.eos] = b], eos |-> m.eos + 1, size |-> m.size]

RECURSIVE MsPutAll(_, _)
\* One put per byte, in order; once the stream is full every further put
\* leaves it as it is.
MsPutAll(m, bytes) ==
  IF bytes = <<>> \/ m.size - m.eos <= 0 THEN m
  ELSE MsPutAll(MsPut(m, Head(bytes)), Tail(bytes))

\* streamPut(chp, b) for each byte, on the sink the call was given.
SinkPut(m, bytes) == IF call.entry = "buffer" THEN MsPutAll(m, bytes) ELSE m

(***************************************************************************)
(* chvsnprintf (lines 513-541)                                              *)
(***************************************************************************)
\* Lines 520-523, mutated: no cell reserved for the terminator.
SizeWoNul_noReserve(size) == size

\* Lines 520-523.
SizeWoNul(size) == IF size > 0 THEN size - 1 ELSE 0

\* Lines 534-537, mutated: the terminator stored unconditionally.
TerminateStr_always(m, size) ==
  [m EXCEPT !.str = IF m.eos \in 0..StrTop THEN [m.str EXCEPT ![m.eos] = NUL]
                    ELSE m.str]

\* Lines 534-537: if (ms.eos < size) str[ms.eos] = 0.
TerminateStr(m, size) ==
  IF m.eos < size THEN [m EXCEPT !.str[m.eos] = NUL] ELSE m

(***************************************************************************)
(* The calls the engine is run on.                                          *)
(***************************************************************************)
Chars(strs) == [j \in 1..Len(strs) |-> Ord[strs[j]]]

Piece(f, a) == [f |-> Chars(f), a |-> a]

FlagChoices == { <<>>, Chars(<<"-">>), Chars(<<"0">>), Chars(<<"-", "0">>) }

WidthChoices ==
  { Piece(<<>>, <<>>), Piece(<<"6">>, <<>>),
    Piece(<<"*">>, <<IntArg(0 - 3)>>), Piece(<<"*">>, <<IntArg(4)>>) }

PrecChoices ==
  { Piece(<<>>, <<>>), Piece(<<".">>, <<>>), Piece(<<".", "1">>, <<>>),
    Piece(<<".", "3">>, <<>>), Piece(<<".", "*">>, <<IntArg(0 - 1)>>) }

AllOnes == <<Limb - 1, Limb - 1>>

LongMin == <<Limb \div 2, 0>>

TailChoices ==
  { Piece(<<"c">>, <<IntArg(Ord["A"])>>), Piece(<<"c">>, <<IntArg(Ord["-"])>>),
    Piece(<<"s">>, <<NullArg>>),
    Piece(<<"s">>, <<StrArg(Chars(<<"-", "a", "b">>))>>),
    Piece(<<"s">>, <<StrArg(<<>>)>>),
    Piece(<<"d">>, <<IntArg(0)>>), Piece(<<"d">>, <<IntArg(0 - 7)>>),
    Piece(<<"d">>, <<IntArg(12345)>>), Piece(<<"d">>, <<WordArg(LongMin)>>),
    Piece(<<"l", "d">>, <<IntArg(0 - 7)>>), Piece(<<"D">>, <<IntArg(42)>>),
    Piece(<<"u">>, <<WordArg(AllOnes)>>), Piece(<<"x">>, <<IntArg(255)>>),
    Piece(<<"X">>, <<WordArg(AllOnes)>>), Piece(<<"o">>, <<WordArg(AllOnes)>>),
    Piece(<<"f">>, <<DblArg("num", FALSE, 0, 0)>>),
    Piece(<<"f">>, <<DblArg("num", FALSE, 15, 1)>>),
    Piece(<<"f">>, <<DblArg("num", TRUE, 5, 2)>>),
    Piece(<<"f">>, <<DblArg("num", FALSE, 123, 0)>>),
    Piece(<<"f">>, <<DblArg("num", TRUE, 15, 0 - 9)>>),
    Piece(<<"f">>, <<DblArg("inf", TRUE, 0, 0)>>),
    Piece(<<"f">>, <<DblArg("nan", FALSE, 0, 0)>>),
    Piece(<<"q">>, <<>>), Piece(<<"l">>, <<>>), Piece(<<>>, <<>>) }

\* A literal before and a literal after the directive.
LitChoices == { <<<<>>, <<>>>>, <<Chars(<<"a">>), Chars(<<"b">>)>> }

StreamSink == {[entry |-> "stream", size |-> 0]}

Sinks == StreamSink \cup {[entry |-> "buffer", size |-> k] : k \in 0..MaxSize}

\* The bytes that may lie after the format's terminator, and how many of
\* them a run may read before a zero is met.
JunkBytes == {NUL, Ord["a"]}

MaxOverread == 2

\* The word that may lie before the pow10 table.
GarbageWords == {0, 7, 100}

\* The directive last carried out: its descriptor d, the rendered text, what
\* s pointed to (src), the filler in force at line 373, the bytes put for
\* it (field) and the float renderer's notes (fl).
LastNone ==
  [valid |-> FALSE, d |-> Descriptor(FALSE, FALSE, NoNum, NoNum, FALSE, FALSE, 0),
   text |-> <<>>, src |-> <<>>, filler |-> NUL, field |-> <<>>,
   fl |-> Rendered(EmptyBuf, 0)]

LtIdle == [pc |-> "idle"]

\* The state at the entry of chvprintf: for the stream form as called, for
\* the bounded form after lines 520-530 of chvsnprintf.
InitCalls(flags, widths, precs, tails, lits, sinks) ==
  /\ lt = LtIdle
  /\ build \in [charSigned : BOOLEAN, useFloat : BOOLEAN]
  /\ \E lit \in lits, fl \in flags, w \in widths, pr \in precs, t \in tails,
        sink \in sinks :
       /\ call = [fmt |-> lit[1] \o Chars(<<"%">>) \o fl \o w.f \o pr.f \o t.f
                            \o lit[2],
                  ap |-> w.a \o pr.a \o t.a,
                  entry |-> sink.entry, size |-> sink.size]
       /\ ms = msObjectInit(SizeWoNul(sink.size))
  /\ pc = "loop"
  /\ fmtp = 1 /\ api = 1 /\ n = 0 /\ puts = <<>>
  /\ tmpbuf = EmptyBuf /\ last = LastNone /\ overreads = 0 /\ retval = -1

\* chvprintf on a stream and chvsnprintf on buffers of every size up to
\* MaxSize, over the whole family of directives.
Init ==
  InitCalls(FlagChoices, WidthChoices, PrecChoices, TailChoices, LitChoices,
            Sinks)

\* c = *fmt++ at line 247: the byte under the cursor.  Past the terminator
\* it is whatever lies there.
CursorBytes ==
  IF fmtp <= Len(call.fmt) + 1 THEN {FmtAt(fmtp)}
  ELSE IF overreads < MaxOverread THEN JunkBytes ELSE {NUL}

Overread == IF fmtp > Len(call.fmt) + 1 THEN 1 ELSE 0

\* Lines 250-255: a literal character.
Literal ==
  /\ pc = "loop"
  /\ \E c \in CursorBytes :
       /\ c # NUL /\ c # Ord["%"]
       /\ puts' = Append(puts, ToByte(c))
       /\ ms' = SinkPut(ms, <<ToByte(c)>>)
  /\ n' = n + 1
  /\ fmtp' = fmtp + 1
  /\ overreads' = overreads + Overread
  /\ UNCHANGED <<build, call, pc, api, tmpbuf, last, retval, lt>>

\* Lines 373-403 done: the bytes go to the sink, n counts them, the cursors
\* move on.
DirectiveEmitted(d, r, e) ==
  /\ puts' = puts \o e.out
  /\ ms' = SinkPut(ms, e.out)
  /\ n' = n + e.cnt
  /\ fmtp' = d.fmt
  /\ api' = r.api
  /\ tmpbuf' = r.buf
  /\ last' = [valid |-> TRUE, d |-> d, text |-> r.text, src |-> r.src,
              filler |-> r.filler, field |-> e.out, fl |-> r.fl]

DirectiveRendered(d, r) ==
  DirectiveEmitted(d, r,
                   EmitField(r.sfirst, r.text, d.width, d.left_align, r.filler))

DirectiveParsed(d) ==
  \E garbage \in IF d.c = Ord["f"] /\ build.useFloat THEN GarbageWords ELSE {0} :
    DirectiveRendered(d, Render(tmpbuf, d, build.useFloat, garbage))

\* Lines 256-403: one directive, parsed, rendered and emitted.
Directive ==
  /\ pc = "loop"
  /\ \E c \in CursorBytes : c = Ord["%"]
  /\ DirectiveParsed(ParseDirective(fmtp + 1, api))
  /\ overreads' = overreads + Overread
  /\ UNCHANGED <<build, call, pc, retval, lt>>

\* Lines 248-249: the terminator; chvprintf returns n.
Return ==
  /\ pc = "loop"
  /\ \E c \in CursorBytes : c = NUL
  /\ retval' = n
  /\ pc' = IF call.entry = "buffer" THEN "ret" ELSE "done"
  /\ fmtp' = fmtp + 1
  /\ overreads' = overreads + Overread
  /\ UNCHANGED <<build, call, api, n, puts, ms, tmpbuf, last, lt>>

\* Lines 533-540: chvsnprintf after chvprintf returned.
Terminate ==
  /\ pc = "ret"
  /\ ms' = TerminateStr(ms, call.size)
  /\ pc' = "done"
  /\ UNCHANGED <<build, call, fmtp, api, n, puts, tmpbuf, last, overreads,
                 retval, lt>>

Next == Literal \/ Directive \/ Return \/ Terminate

Spec == Init /\ [][Next]_vars

(***************************************************************************)
(* Specification of the integer renderer alone: ch_ltoa on one operand.    *)
(***************************************************************************)
MaxNum == 300

\* 2^31 - 1, the largest non-negative long, and values around the powers
\* of the radices.
EdgeNums ==
  { <<Limb \div 2 - 1, Limb - 1>>, <<0, Limb - 1>>, <<1, 0>>, <<1, 1>>,
    FromInt(1000000000), FromInt(999999999), FromInt(1073741824),
    FromInt(1073741823), FromInt(268435456), FromInt(268435455),
    FromInt(4095), FromInt(4096), FromInt(32767), FromInt(32768) }

LtoaNums == { FromInt(v) : v \in 0..MaxNum } \cup EdgeNums

LtoaRadices == {8, 10, 16}

EngineIdle ==
  /\ build = [charSigned |-> FALSE, useFloat |-> FALSE]
  /\ call = [fmt |-> <<>>]
  /\ pc = "idle"
  /\ fmtp = 0 /\ api = 0 /\ n = 0 /\ puts = <<>> /\ ms = [eos |-> 0]
  /\ tmpbuf = EmptyBuf /\ last = LastNone /\ overreads = 0 /\ retval = -1

InitLtoa ==
  /\ EngineIdle
  /\ \E num \in LtoaNums, radix \in LtoaRadices, p \in {0, 1} :
       lt = [pc |-> "call", num |-> num, radix |-> radix, p |-> p]

\* One call ch_ltoa(tmpbuf + p, num, radix).
LtoaCall ==
  /\ lt.pc = "call"
  /\ LET r == ch_ltoa(EmptyBuf, lt.p, lt.num, lt.radix)
     IN  lt' = [pc |-> "done", num |-> lt.num, radix |-> lt.radix, p |-> lt.p,
                buf |-> r.buf, ret |-> r.p]
  /\ UNCHANGED engineVars

NextLtoa == LtoaCall

SpecLtoa == InitLtoa /\ [][NextLtoa]_vars

(***************************************************************************)
(* Claims about the engine, checked under Spec.                            *)
(***************************************************************************)
\* Lines 239-243: sizeof tmpbuf.
TmpbufSize ==
  IF build.useFloat THEN 2 * MAX_FILLER + 1 ELSE MAX_FILLER + 1

\* C1: the value chvprintf returns is the number of bytes it handed to the
\* sink's put: n counts every put as it is made, so at every moment n is
\* the length of what an unbounded sink would hold, and the value returned
\* is that length, whether or not the live sink took the bytes.
C1_ReturnCountsPuts ==
  /\ n = Len(puts)
  /\ pc \in {"ret", "done"} => retval = Len(puts)

\* A bounded call has returned: literals and a padded %d field were put,
\* the buffer took fewer bytes than were put.
C1_Witness ==
  /\ pc = "done" /\ call.entry = "buffer" /\ overreads = 0
  /\ last.d.c = Ord["d"]
  /\ ms.eos < Len(puts) /\ retval = Len(puts)
  /\ last.valid /\ Len(last.field) > Len(last.text)
  /\ Len(puts) > Len(last.field)

\* C2: chvsnprintf(str, N, ...) with N > 0 and logical length L >= N leaves
\* the first N-1 bytes of the untruncated output in str[0..N-2] and a NUL at
\* str[N-1], stores nothing at an index >= N, and returns L.
C2_TruncatedBuffer ==
  (pc = "done" /\ call.entry = "buffer" /\ call.size > 0
     /\ Len(puts) >= call.size) =>
    /\ \A k \in 0..(call.size - 2) : ms.str[k] = puts[k + 1]
    /\ ms.str[call.size - 1] = NUL
    /\ \A k \in call.size..StrTop : ms.str[k] = -1
    /\ retval = Len(puts)

\* chsnprintf(buf, 4, "%d", 12345) has stored "123" and the NUL and
\* returned 5.
C2_Witness ==
  /\ pc = "done" /\ call.entry = "buffer" /\ call.size = 4
  /\ call.fmt = Chars(<<"%", "d">>) /\ call.ap[1].w = FromInt(12345)
  /\ ms.str[0] = Ord["1"] /\ ms.str[1] = Ord["2"] /\ ms.str[2] = Ord["3"]
  /\ ms.str[3] = NUL /\ ms.str[4] = -1
  /\ retval = 5

\* C3: with capacity 0 chvsnprintf stores nothing in the destination, data
\* or terminator, at any moment of the call, and still returns the
\* untruncated length.
C3_ZeroCapacity ==
  (call.entry = "buffer" /\ call.size = 0) =>
    /\ \A k \in 0..StrTop : ms.str[k] = -1
    /\ pc = "done" => retval = Len(puts)

\* A call with capacity 0 has returned a length above 0.
C3_Witness ==
  /\ pc = "done" /\ call.entry = "buffer" /\ call.size = 0
  /\ overreads = 0 /\ last.valid /\ last.d.c = Ord["d"]
  /\ retval > 0 /\ retval = Len(puts)

\* The padding of the directive last carried out: width - rendered_length.
LastPad == Max(last.d.width - Len(last.text), 0)

\* A right-aligned directive with the '0' flag whose text begins with '-'
\* and is shorter than the width.
SignedZeroCase ==
  /\ last.valid /\ ~last.d.left_align /\ last.d.zero
  /\ last.text # <<>> /\ last.text[1] = Ord["-"]
  /\ last.d.width > Len(last.text)

\* The '-', then the zeros, then the rest of the text.
SignFirstField ==
  <<Ord["-"]>> \o Fill(LastPad, Ord["0"]) \o Bytes(Tail(last.text))

\* C4 as stated: every right-aligned directive with the '0' flag whose text
\* begins with '-' and is shorter than the width is emitted as the '-', then
\* width - length zeros, then the rest, width characters in all; and when
\* the width does not exceed the length the text is emitted as it is.
C4_SignFirstEveryConversion ==
  /\ SignedZeroCase =>
       /\ last.field = SignFirstField
       /\ Len(last.field) = last.d.width
  /\ (last.valid /\ last.d.width <= Len(last.text)) =>
       last.field = Bytes(last.text)

\* C4, amended: the same for every conversion but c and s, which put the
\* filler back to a space (lines 312, 316).
C4_SignFirstZeroFiller ==
  /\ (SignedZeroCase /\ last.d.c \notin {Ord["c"], Ord["s"]}) =>
       /\ last.field = SignFirstField
       /\ Len(last.field) = last.d.width
       /\ last.field[1] = Ord["-"]
  /\ (last.valid /\ last.d.width <= Len(last.text)) =>
       last.field = Bytes(last.text)

\* "%06d" with -7 has been emitted as -00007.
C4_Witness ==
  /\ SignedZeroCase /\ last.d.c = Ord["d"] /\ last.d.width = 6
  /\ last.field = Chars(<<"-", "0", "0", "0", "0", "7">>)

\* C5: with both '-' and '0' the zero flag is ignored: the text comes first
\* and the field is filled on the right with spaces.  (Stated for the
\* directives that have a conversion character.)
C5_LeftAlignFillsWithSpaces ==
  (last.valid /\ last.d.left_align /\ last.d.zero /\ last.d.c # NUL) =>
    last.field = Bytes(last.text) \o Fill(LastPad, Ord[" "])

\* A '*' width, and a '*' precision of %s, whose argument is negative.
NegStarWidth == last.valid /\ last.d.wstar /\ last.d.warg < 0

NegStarPrecision ==
  last.valid /\ last.d.pstar /\ last.d.parg < 0 /\ last.d.c = Ord["s"]

\* C6 as stated: a negative '*' width pads the directive as a very large
\* width does (fillers are emitted), and a negative '*' precision lets %s
\* copy the string as a very large precision does (the whole of it).
\* (Stated for the directives that have a conversion character.)
C6_NegativeStarIsLarge ==
  /\ (NegStarWidth /\ last.d.c # NUL) => Len(last.field) > Len(last.text)
  /\ NegStarPrecision => last.text = last.src

\* C6, amended: the negative value v (-128..-1, the whole of the width or
\* precision) is narrowed to char as a digit is.  Where plain char is
\* unsigned it acts as 256 + v: the field is padded to 256 + v characters,
\* %s copies up to 256 + v characters.  Where plain char is signed the width
\* is negative and nothing is padded, and %s copies no character.
C6_NegativeStarByCharSign ==
  /\ NegStarWidth =>
       IF build.charSigned
         THEN last.field = Bytes(last.text)
         ELSE /\ last.d.width = 256 + last.d.warg
              /\ Len(last.field) = Max(256 + last.d.warg, Len(last.text))
  /\ NegStarPrecision =>
       IF build.charSigned
         THEN last.text = <<>>
         ELSE last.text = SubSeq(last.src, 1,
                                 Min(Len(last.src), 256 + last.d.parg))

\* "%*d" with the width argument -3 on an unsigned-char build: a field of
\* 253 characters.
C6_Witness ==
  /\ NegStarWidth /\ ~build.charSigned /\ last.d.warg = 0 - 3
  /\ last.d.c = Ord["d"] /\ Len(last.field) = 253

\* C7: every store of the renderers into tmpbuf, the scratch stores of
\* long_to_string_with_divisor included, goes to an index within
\* [0, sizeof tmpbuf).
C7_TmpbufInBounds == tmpbuf.lo >= 0 /\ tmpbuf.hi < TmpbufSize

\* C8: the cursor never reads a character past the format's terminator, and
\* the terminator is never taken for a conversion character and put.
C8_StopsAtTerminator ==
  /\ overreads = 0
  /\ last.valid => last.d.c # NUL

\* Where the text of a float begins in tmpbuf: after the '-', if any.
SciStart == IF Load(last.fl.buf, 0) = Ord["-"] THEN 1 ELSE 0

IsDigit(ch) == ch >= Ord["0"] /\ ch <= Ord["9"]

\* C9: in the branch with exponent, for every clamped precision p in 1..9,
\* the text is one integer digit, a '.', exactly p - 1 fraction digits and
\* then the 'E'; and pow10 is indexed within its entries 0..8 only.
C9_ScientificShape ==
  (last.valid /\ last.fl.sci) =>
    /\ last.fl.pidx \in 0..(FLOAT_PRECISION - 1)
    /\ last.fl.prec \in 1..FLOAT_PRECISION
    /\ IsDigit(Load(last.fl.buf, SciStart))
    /\ last.fl.dot = SciStart + 1
    /\ Load(last.fl.buf, last.fl.dot) = Ord["."]
    /\ last.fl.epos = last.fl.dot + 1 + (last.fl.prec - 1)
    /\ \A k \in (last.fl.dot + 1)..(last.fl.epos - 1) :
         IsDigit(Load(last.fl.buf, k))
    /\ Load(last.fl.buf, last.fl.epos) = Ord["E"]

(***************************************************************************)
(* Claim about the integer renderer, checked under SpecLtoa.               *)
(***************************************************************************)
\* The value of a digit character, -1 for any other character.
DigitVal(ch) ==
  IF ch >= Ord["0"] /\ ch <= Ord["9"] THEN ch - Ord["0"]
  ELSE IF ch >= Ord["A"] /\ ch <= Ord["Z"] THEN ch - Ord["A"] + 10
  ELSE -1

RECURSIVE ParseL(_, _, _)
\* Reading digits most-significant first in base r, as a 32-bit pattern.
ParseL(digits, r, acc) ==
  IF digits = <<>> THEN acc
  ELSE LET lo == acc[2] * r + DigitVal(Head(digits))
       IN  ParseL(Tail(digits), r,
                  <<(acc[1] * r + lo \div Limb) % Limb, lo % Limb>>)

LtoaDigits == Text(lt.buf, lt.p, lt.ret)

\* C10: for every radix in {8, 10, 16} and every non-negative long n,
\* ch_ltoa(p, n, r) leaves at p the digits of n, most significant first, drawn
\* from '0'..'9','A'..'Z' and below the radix, without leading zeros, so that
\* reading them back in base r gives n; n = 0 gives the single digit '0'; and
\* the returned pointer is the position just after the last digit.
C10_LtoaRoundTrip ==
  lt.pc = "done" =>
    /\ lt.ret > lt.p
    /\ \A k \in 1..Len(LtoaDigits) :
         DigitVal(LtoaDigits[k]) \in 0..(lt.radix - 1)
    /\ Len(LtoaDigits) > 1 => LtoaDigits[1] # Ord["0"]
    /\ ParseL(LtoaDigits, lt.radix, FromInt(0)) = lt.num
    /\ LIsZero(lt.num) => LtoaDigits = <<Ord["0"]>>

\* ch_ltoa(p, 2^31-1, 16) has written 7FFFFFFF.
C10_Witness ==
  /\ lt.pc = "done" /\ lt.radix = 16
  /\ lt.num = <<Limb \div 2 - 1, Limb - 1>>
  /\ Len(LtoaDigits) = 8 /\ LtoaDigits[1] = Ord["7"] /\ LtoaDigits[8] = Ord["F"]

====
